---- MODULE Spec2Model ----
(***************************************************************************)
(* A model of modules/scheduler.py: the genetic timetable scheduler.       *)
(*                                                                         *)
(* Scheduler.run is a state machine over its locals (population,           *)
(* new_population, parent, child, best_schedule, ...).  The helpers        *)
(* _check_hard_constraints, _get_score, _calculate_windows_number,         *)
(* _try_generate_valid_schedule and _mutate are operators; every call of   *)
(* the random module is a nondeterministic choice over its outcomes.       *)
(*                                                                         *)
(* A Schedule is modelled with object identity: `heap` holds the Session   *)
(* objects and `sessions` is the Python list, a sequence of references     *)
(* into the heap.  Two list entries may be the same object, which is what  *)
(* `s1 is s2` in _check_hard_constraints tests, and copy.deepcopy keeps    *)
(* that sharing.                                                           *)
(*                                                                         *)
(* The code's week is 5 days of 6 periods.  The model runs the same code   *)
(* over a smaller week, the days in Days with NPeriods periods each, so    *)
(* that a week can fill up with a handful of sessions.                     *)
(***************************************************************************)
EXTENDS Integers, Sequences, FiniteSets, TLC

\* ---------------------------------------------------------------- bounds
\* Periods of a day in the model (the code lists 6, FIRST..SIXTH).
NPeriods == 3
\* n_generations ranges over 0..MaxGenerations.
MaxGenerations == 2
\* The longest session list the score specification draws.
MaxSessions == 2

\* ------------------------------------------------------ program constants
\* `attempts < self._population_size * 100`
AttemptsMultiplier == 100

\* entities.time_slot.TimeSlotDay.  The code lists MONDAY..FRIDAY; the model's
\* week is cut to its first day.
Days == {"MONDAY"}
\* entities.time_slot.TimeSlotTime by its .value, taken to be the period's
\* ordinal: FIRST = 1, SECOND = 2, ...
Times == 1..NPeriods

\* ---------------------------------------------------------------- entities
Subject(n) == [name |-> n]
Room(i, c) == [identifier |-> i, capacity |-> c]
Teacher(f, subjects) == [fullname |-> f, teachable_subjects |-> subjects]
Group(n, s, reqs) == [name |-> n, size |-> s, required_subjects |-> reqs]
TimeSlot(d, t) == [day |-> d, time |-> t]
Session(r, g, s, t, ts) ==
    [room |-> r, group |-> g, subject |-> s, teacher |-> t, time_slot |-> ts]

\* Schedule(sessions): the list and the Session objects it refers to.
Schedule(refs, objs) == [sessions |-> refs, heap |-> objs]
EmptySchedule == Schedule(<<>>, <<>>)

\* The Session object at list position i.
At(schedule, i) == schedule.heap[schedule.sessions[i]]
Positions(schedule) == 1..Len(schedule.sessions)

\* ------------------------------------------------- _check_hard_constraints
\* Line 74 with `and` for `or`: a clash only when group, room and teacher are
\* all shared.
Clash_AllShared(a, b) ==
    /\ a.time_slot.time = b.time_slot.time
    /\ a.time_slot.day = b.time_slot.day
    /\ a.group.name = b.group.name
    /\ a.room.identifier = b.room.identifier
    /\ a.teacher.fullname = b.teacher.fullname

\* True when both list entries are in the same (day, period) and share a group
\* name, a room identifier or a teacher fullname (lines 70-74).
Clash(a, b) ==
    /\ a.time_slot.time = b.time_slot.time
    /\ a.time_slot.day = b.time_slot.day
    /\ \/ a.group.name = b.group.name
       \/ a.room.identifier = b.room.identifier
       \/ a.teacher.fullname = b.teacher.fullname

check_hard_constraints(schedule) ==
    \A i, j \in Positions(schedule) :
        \/ schedule.sessions[i] = schedule.sessions[j]      \* s1 is s2
        \/ ~Clash(At(schedule, i), At(schedule, j))

\* ------------------------------------------------ _calculate_windows_number
SeqSum(f) ==
    LET RECURSIVE Go(_)
        Go(i) == IF i = 0 THEN 0 ELSE f[i] + Go(i - 1)
    IN Go(Len(f))

SetSum(S, f(_)) ==
    LET RECURSIVE Go(_)
        Go(T) == IF T = {} THEN 0
                 ELSE LET x == CHOOSE y \in T : TRUE IN f(x) + Go(T \ {x})
    IN Go(S)

SetMin(S) == CHOOSE x \in S : \A y \in S : x <= y
SetMax(S) == CHOOSE x \in S : \A y \in S : x >= y

\* Line 122 without its `+ 1`.
DayWindows_NoPlusOne(time_slots, day) ==
    LET idx == {i \in 1..Len(time_slots) : time_slots[i].day = day}
        vals == {time_slots[i].time : i \in idx}
    IN IF Cardinality(idx) > 1
       THEN (SetMax(vals) - SetMin(vals)) - Cardinality(idx)
       ELSE 0

\* Lines 118-122, one day of the loop.  time_slots is a sequence of TimeSlot
\* (with repetitions, as the list has).
DayWindows(time_slots, day) ==
    LET idx == {i \in 1..Len(time_slots) : time_slots[i].day = day}
        vals == {time_slots[i].time : i \in idx}
    IN IF Cardinality(idx) > 1
       THEN (SetMax(vals) - SetMin(vals)) - Cardinality(idx) + 1
       ELSE 0

calculate_windows_number(time_slots) ==
    SetSum(Days, LAMBDA day : DayWindows(time_slots, day))

\* --------------------------------------------------------------- _get_score
SelectSeq2(s, Test(_)) ==
    LET RECURSIVE Go(_)
        Go(i) == IF i = 0 THEN <<>>
                 ELSE IF Test(s[i]) THEN Append(Go(i - 1), s[i]) ELSE Go(i - 1)
    IN Go(Len(s))

\* The list of Session objects, entry by entry.
Entries(schedule) == [i \in Positions(schedule) |-> At(schedule, i)]

SlotsOfGroup(schedule, g) ==
    LET mine == SelectSeq2(Entries(schedule), LAMBDA x : x.group.name = g)
    IN [i \in 1..Len(mine) |-> mine[i].time_slot]

SlotsOfTeacher(schedule, t) ==
    LET mine == SelectSeq2(Entries(schedule), LAMBDA x : x.teacher.fullname = t)
    IN [i \in 1..Len(mine) |-> mine[i].time_slot]

total_groups_windows(schedule) ==
    SetSum({At(schedule, i).group.name : i \in Positions(schedule)},
           LAMBDA g : calculate_windows_number(SlotsOfGroup(schedule, g)))

total_teachers_windows(schedule) ==
    SetSum({At(schedule, i).teacher.fullname : i \in Positions(schedule)},
           LAMBDA t : calculate_windows_number(SlotsOfTeacher(schedule, t)))

Max2(a, b) == IF a > b THEN a ELSE b

seats_lacking(schedule) ==
    SeqSum([i \in Positions(schedule) |->
              Max2(At(schedule, i).group.size - At(schedule, i).room.capacity, 0)])

\* The denominator of line 106.
Denominator(schedule) ==
    1 + total_groups_windows(schedule) + total_teachers_windows(schedule)
      + seats_lacking(schedule)

\* The score is the fraction num / den; den = 0 is where Python raises
\* ZeroDivisionError.
get_score(schedule) == [num |-> 1, den |-> Denominator(schedule)]

\* a > b for two scores with nonzero denominators (sign-aware cross product).
ScoreGT(a, b) ==
    LET sa == IF a.den > 0 THEN 1 ELSE -1
        sb == IF b.den > 0 THEN 1 ELSE -1
    IN (a.num * b.den) * (sa * sb) > (b.num * a.den) * (sa * sb)

ScoreGE(a, b) == ~ScoreGT(b, a)

\* ---------------------------------------------- _try_generate_valid_schedule
\* Line 151 without its filter: every teacher is a candidate.
TeacherCandidates_Any(teachers, subject) == 1..Len(teachers)

\* Lines 151 and 242: the teachers (by index) whose teachable subjects contain
\* the subject's name.
TeacherCandidates(teachers, subject) ==
    {i \in 1..Len(teachers) :
        \E k \in 1..Len(teachers[i].teachable_subjects) :
            teachers[i].teachable_subjects[k].name = subject.name}

\* Lines 176-182: the per-step conflict test of one placed session against the
\* candidate (teacher, room, day, time) for `group`.
InterferesWith(placed, teacher, room, day, time, group) ==
    /\ placed.time_slot.day = day /\ placed.time_slot.time = time
    /\ ~(/\ placed.room.identifier # room.identifier
         /\ placed.teacher.fullname # teacher.fullname
         /\ placed.group.name # group.name)

\* List positions of the sessions the candidate interferes with.
Interfering(schedule, teacher, room, day, time, group) ==
    {i \in Positions(schedule) :
        InterferesWith(At(schedule, i), teacher, room, day, time, group)}

\* schedule.sessions.append(Session(...)): a new object.
AppendNew(schedule, session) ==
    Schedule(Append(schedule.sessions, Len(schedule.heap) + 1),
             Append(schedule.heap, session))

\* schedule.sessions.append(session) for a session the list already holds.
AppendSame(schedule, i) ==
    Schedule(Append(schedule.sessions, schedule.sessions[i]), schedule.heap)

\* Lines 151-189, one (group, subject) instance: the schedules the step can
\* leave, {} when it returns None.  The four shuffles make every candidate
\* tuple a possible first and a possible last of the scan.  `session` is both
\* the result and the inner loop's variable: when every tuple interferes,
\* `session` is left bound to the session that made the last tuple interfere
\* (the first one in list order, the inner loop breaks there), it is not None,
\* and line 189 appends that object a second time.
PlaceSession(schedule, group, subject, rooms, teachers) ==
    LET combos == {c \in TeacherCandidates(teachers, subject) \X (1..Len(rooms))
                             \X Days \X Times : TRUE}
        hit(c) == Interfering(schedule, teachers[c[1]], rooms[c[2]], c[3], c[4], group)
        free == {c \in combos : hit(c) = {}}
    IN IF free # {}
       THEN {AppendNew(schedule, Session(rooms[c[2]], group, subject, teachers[c[1]],
                                         TimeSlot(c[3], c[4]))) : c \in free}
       ELSE {AppendSame(schedule, SetMin(hit(c))) : c \in combos}

\* Lines 147-149: the (group, subject) instances in generation order.
Demands(groups) ==
    LET RECURSIVE OfReqs(_, _)
        OfReqs(g, reqs) ==
            IF reqs = <<>> THEN <<>>
            ELSE [i \in 1..Head(reqs)[1] |-> [group |-> g, subject |-> Head(reqs)[2]]]
                 \o OfReqs(g, Tail(reqs))
        RECURSIVE OfGroups(_)
        OfGroups(gs) ==
            IF gs = <<>> THEN <<>>
            ELSE OfReqs(Head(gs), Head(gs).required_subjects) \o OfGroups(Tail(gs))
    IN OfGroups(groups)

\* The outcomes of one call: [kind |-> "schedule"] with the schedule returned,
\* [kind |-> "none"] for None, [kind |-> "assert"] when line 190 fails.
try_generate_valid_schedule(groups, rooms, teachers) ==
    LET RECURSIVE Go(_, _)
        Go(schedule, demands) ==
            IF demands = <<>>
            THEN {[kind |-> IF check_hard_constraints(schedule)
                            THEN "schedule" ELSE "assert",
                   schedule |-> schedule]}
            ELSE LET d == Head(demands)
                     next == PlaceSession(schedule, d.group, d.subject, rooms, teachers)
                 IN IF next = {}
                    THEN {[kind |-> "none", schedule |-> EmptySchedule]}
                    ELSE UNION {Go(s, Tail(demands)) : s \in next}
    IN Go(EmptySchedule, Demands(groups))

\* ------------------------------------------------------------------ _mutate
\* session.<field> = value on the object at list position i of the copy.
SetField(schedule, i, field, value) ==
    Schedule(schedule.sessions,
             [schedule.heap EXCEPT ![schedule.sessions[i]][field] = value])

\* Lines 248-250.  Both indices come from random.choices(..., k=2), drawn with
\* replacement.  Line 249 overwrites i2's slot with i1's; line 250 then reads
\* i2's slot, which is already i1's.
Swap(schedule, i1, i2) ==
    LET first == SetField(schedule, i2, "time_slot", At(schedule, i1).time_slot)
    IN SetField(first, i1, "time_slot", At(first, i2).time_slot)

Mutation(type, i1, i2) == [type |-> type, i1 |-> i1, i2 |-> i2]
NoMutation == Mutation("NONE", 0, 0)

\* The outcomes of one call: the schedule returned with the locals that made
\* it, or raised = TRUE where random.choice gets an empty list (IndexError).
\* Line 209 returns the parent itself; otherwise the deep copy is changed.
mutate(schedule, teachers, rooms) ==
    LET n == Len(schedule.sessions)
        out(m, s) == [mutation |-> m, schedule |-> s, raised |-> FALSE]
        err(m) == [mutation |-> m, schedule |-> schedule, raised |-> TRUE]
    IN {out(NoMutation, schedule)}
       \cup (IF n = 0 THEN {err(Mutation("CHANGE_TIME_SLOT", 0, 0))}
             ELSE {out(Mutation("CHANGE_TIME_SLOT", i, 0),
                       SetField(schedule, i, "time_slot", TimeSlot(d, t)))
                     : i \in 1..n, t \in Times, d \in Days})
       \cup (IF n = 0 THEN {err(Mutation("CHANGE_TEACHER", 0, 0))}
             ELSE UNION {
                  LET cand == TeacherCandidates(teachers, At(schedule, i).subject)
                  IN IF cand = {} THEN {err(Mutation("CHANGE_TEACHER", i, 0))}
                     ELSE {out(Mutation("CHANGE_TEACHER", i, 0),
                               SetField(schedule, i, "teacher", teachers[k]))
                             : k \in cand}
                  : i \in 1..n})
       \cup (IF n = 0 \/ rooms = <<>> THEN {err(Mutation("CHANGE_ROOM", 0, 0))}
             ELSE {out(Mutation("CHANGE_ROOM", i, 0),
                       SetField(schedule, i, "room", rooms[k]))
                     : i \in 1..n, k \in 1..Len(rooms)})
       \cup (IF n = 0 THEN {err(Mutation("SWAP", 0, 0))}
             ELSE {out(Mutation("SWAP", i1, i2), Swap(schedule, i1, i2))
                     : i1 \in 1..n, i2 \in 1..n})

\* ---------------------------------------------------------------- selection
\* sorted(pool, reverse=True, key=_get_score): a stable sort, equal scores keep
\* their order in the pool.
SortByScore(pool) ==
    LET RECURSIVE Insert(_, _)
        Insert(sorted, x) ==
            IF sorted = <<>> THEN <<x>>
            ELSE IF ScoreGT(get_score(x), get_score(Head(sorted)))
                 THEN <<x>> \o sorted
                 ELSE <<Head(sorted)>> \o Insert(Tail(sorted), x)
        RECURSIVE Go(_)
        Go(i) == IF i = 0 THEN <<>> ELSE Insert(Go(i - 1), pool[i])
    IN Go(Len(pool))

\* pool[:n]
Truncate(pool, n) == SubSeq(pool, 1, IF n < Len(pool) THEN n ELSE Len(pool))

\* Line 47.
GreedySelection(population, new_population, population_size) ==
    Truncate(SortByScore(population \o new_population), population_size)

\* A key function raises ZeroDivisionError on a member of the pool.
ScoreRaises(pool) == \E i \in 1..Len(pool) : Denominator(pool[i]) = 0

\* ------------------------------------------------------------------ inputs
math == Subject("math")
art == Subject("art")
physics == Subject("physics")

\* One group, one session; the second room is too small for the group.
Tiny ==
    [groups |-> <<Group("g1", 1, << <<1, math>> >>)>>,
     rooms |-> <<Room(1, 1), Room(2, 0)>>,
     teachers |-> <<Teacher("t1", <<math>>)>>]

\* One group, two subjects; only the first teacher can teach math.
Pair ==
    [groups |-> <<Group("g1", 1, << <<1, math>>, <<1, art>> >>)>>,
     rooms |-> <<Room(1, 1)>>,
     teachers |-> <<Teacher("t1", <<math, art>>), Teacher("t2", <<art>>)>>]

\* Two groups, four sessions, one teacher and one room.
Crowded ==
    [groups |-> <<Group("g1", 1, << <<2, math>> >>), Group("g2", 1, << <<2, math>> >>)>>,
     rooms |-> <<Room(1, 1)>>,
     teachers |-> <<Teacher("t1", <<math>>)>>]

\* No teacher can teach physics.
NoTeacher ==
    [groups |-> <<Group("g1", 1, << <<1, math>>, <<1, physics>> >>)>>,
     rooms |-> <<Room(1, 1)>>,
     teachers |-> <<Teacher("t1", <<math>>)>>]

\* The rosters run is called with, each with the population sizes it is run at.
Scenarios ==
    {[roster |-> Tiny, population_size |-> 1],
     [roster |-> Tiny, population_size |-> 2],
     [roster |-> Pair, population_size |-> 1],
     [roster |-> Crowded, population_size |-> 1],
     [roster |-> NoTeacher, population_size |-> 1]}

SelectionStrategy == {"GREEDY", "RAIN"}

\* ------------------------------------------------------------------- state
VARIABLES
    groups, rooms, teachers,          \* the arguments of run
    population_size, n_generations,   \* self._population_size, self._n_generations
    selection_strategy,               \* self._selection_strategy
    pc,                               \* where run is
    error,                            \* the exception that ended run, or "none"
    attempts,                         \* _generate_initial_population's counter
    population, new_population,
    parent, child,                    \* the locals of the breeding loop
    mutation,                         \* the locals of the last _mutate call
    best_schedule,
    generation,                       \* generations completed
    generations_without_improvement,
    current_score,
    history                           \* the score denominators of every member of
                                      \* the initial and of each selected population

config == <<groups, rooms, teachers, population_size, n_generations, selection_strategy>>
breeding == <<parent, child, mutation>>
vars == <<config, pc, error, attempts, population, new_population, breeding,
          best_schedule, generation, generations_without_improvement,
          current_score, history>>

NoScore == [num |-> 0, den |-> 1]

Dens(pool) == {Denominator(pool[i]) : i \in 1..Len(pool)}

\* Scheduler(population_size, n_generations, selection_strategy).run(groups,
\* rooms, teachers) is entered.
Init ==
    /\ \E sc \in Scenarios :
          /\ groups = sc.roster.groups
          /\ rooms = sc.roster.rooms
          /\ teachers = sc.roster.teachers
          /\ population_size = sc.population_size
    /\ n_generations \in 0..MaxGenerations
    /\ selection_strategy \in SelectionStrategy
    /\ pc = "seeding"
    /\ error = "none"
    /\ attempts = 0
    /\ population = <<>>
    /\ new_population = <<>>
    /\ parent = EmptySchedule
    /\ child = EmptySchedule
    /\ mutation = NoMutation
    /\ best_schedule = EmptySchedule
    /\ generation = 0
    /\ generations_without_improvement = 0
    /\ current_score = NoScore
    /\ history = {}

Raise(e) ==
    /\ pc' = "failed"
    /\ error' = e

\* Line 133 stopping one schedule short.
SeedingContinues_OffByOne(n, tried) ==
    n < population_size - 1 /\ tried < population_size * AttemptsMultiplier

\* Line 133: the seeding loop's condition.
SeedingContinues(n, tried) ==
    n < population_size /\ tried < population_size * AttemptsMultiplier

\* Lines 133-137: one attempt of the seeding loop.
Seed ==
    /\ pc = "seeding"
    /\ SeedingContinues(Len(population), attempts)
    /\ attempts' = attempts + 1
    /\ \E r \in try_generate_valid_schedule(groups, rooms, teachers) :
          CASE r.kind = "schedule" ->
                 /\ population' = Append(population, r.schedule)
                 /\ UNCHANGED <<pc, error>>
            [] r.kind = "none" ->
                 UNCHANGED <<population, pc, error>>
            [] OTHER ->
                 /\ Raise("AssertionError")
                 /\ UNCHANGED population
    /\ UNCHANGED <<config, new_population, breeding, best_schedule, generation,
                   generations_without_improvement, current_score, history>>

\* Lines 138 and 34-36: the loop is over, the population is returned to run.
Seeded ==
    /\ pc = "seeding"
    /\ ~SeedingContinues(Len(population), attempts)
    /\ IF Len(population) > 0
       THEN /\ best_schedule' = population[1]
            /\ pc' = "loop"
            /\ history' = Dens(population)
            /\ UNCHANGED error
       ELSE /\ Raise("AssertionError: Empty initial population")
            /\ UNCHANGED <<best_schedule, history>>
    /\ UNCHANGED <<config, attempts, population, new_population, breeding, generation,
                   generations_without_improvement, current_score>>

\* Lines 38-39 and 62: the head of the generation loop, or the return.
Generation ==
    /\ pc = "loop"
    /\ IF generation < n_generations
       THEN /\ new_population' = <<>>
            /\ pc' = "breed"
       ELSE /\ pc' = "done"
            /\ UNCHANGED new_population
    /\ UNCHANGED <<config, error, attempts, population, breeding, best_schedule,
                   generation, generations_without_improvement, current_score, history>>

\* Lines 40-44: one pass of the breeding loop.
Breed ==
    /\ pc = "breed"
    /\ Len(new_population) < population_size
    /\ \E p \in 1..Len(population) :
       \E m \in mutate(population[p], teachers, rooms) :
          /\ parent' = population[p]
          /\ mutation' = m.mutation
          /\ IF m.raised
             THEN /\ Raise("IndexError")
                  /\ UNCHANGED <<child, new_population>>
             ELSE /\ child' = m.schedule
                  /\ new_population' =
                        IF check_hard_constraints(m.schedule)
                        THEN Append(new_population, m.schedule)
                        ELSE new_population
                  /\ UNCHANGED <<pc, error>>
    /\ UNCHANGED <<config, attempts, population, best_schedule, generation,
                   generations_without_improvement, current_score, history>>

\* Lines 54-61, after the selection left `selected`.
Track(selected) ==
    \E sorted \in {SortByScore(selected)} :
    \E better \in {ScoreGT(get_score(sorted[1]), get_score(best_schedule))} :
       /\ population' = sorted
       /\ best_schedule' = IF better THEN sorted[1] ELSE best_schedule
       /\ generations_without_improvement' =
             IF better THEN generations_without_improvement
             ELSE generations_without_improvement + 1
       /\ current_score' = get_score(IF better THEN sorted[1] ELSE best_schedule)
       /\ history' = history \cup Dens(sorted)
       /\ generation' = generation + 1
       /\ pc' = "loop"
       /\ UNCHANGED error

\* Lines 46-47 and 54-61 under GREEDY.
SelectGreedy ==
    /\ pc = "breed"
    /\ Len(new_population) >= population_size
    /\ selection_strategy = "GREEDY"
    /\ IF ScoreRaises(population \o new_population)
       THEN /\ Raise("ZeroDivisionError")
            /\ UNCHANGED <<population, best_schedule, generations_without_improvement,
                           current_score, history, generation>>
       ELSE \E selected \in {GreedySelection(population, new_population,
                                               population_size)} :
               Track(selected)
    /\ UNCHANGED <<config, attempts, new_population, breeding>>

\* Lines 48-50 under RAIN.  The key function runs first; then line 49 slices a
\* list with the float population_size * 0.2, a TypeError for every
\* population_size, so line 50 is never reached.
SelectRain ==
    /\ pc = "breed"
    /\ Len(new_population) >= population_size
    /\ selection_strategy = "RAIN"
    /\ IF ScoreRaises(population \o new_population)
       THEN Raise("ZeroDivisionError")
       ELSE Raise("TypeError")
    /\ UNCHANGED <<config, attempts, population, new_population, breeding,
                   best_schedule, generation, generations_without_improvement,
                   current_score, history>>

Next ==
    \/ Seed
    \/ Seeded
    \/ Generation
    \/ Breed
    \/ SelectGreedy
    \/ SelectRain

Spec == Init /\ [][Next]_vars

\* run is a sequential program: while a step is possible, one is taken.
FairSpec == Spec /\ WF_vars(Next)

\* ------------------------------------------- _get_score as a pure function
\* The sessions a scored list is drawn from: two groups, two teachers, a room
\* that fits the groups and one that does not, every time slot.
ScoreSessions ==
    {Session(r, g, math, t, TimeSlot(d, p)) :
        r \in {Room(1, 1), Room(2, 0)},
        g \in {Group("g1", 1, <<>>), Group("g2", 1, <<>>)},
        t \in {Teacher("t1", <<math>>), Teacher("t2", <<math>>)},
        d \in Days, p \in Times}

\* Every list of at most MaxSessions distinct Session objects.
ScoreInputs ==
    UNION {{Schedule([i \in 1..n |-> i], objs) : objs \in [1..n -> ScoreSessions]}
             : n \in 0..MaxSessions}

InitScore ==
    /\ groups = <<>> /\ rooms = <<>> /\ teachers = <<>>
    /\ population_size = 1
    /\ n_generations = 0
    /\ selection_strategy = "GREEDY"
    /\ pc = "score"
    /\ error = "none"
    /\ attempts = 0
    /\ population = <<>>
    /\ new_population = <<>>
    /\ parent = EmptySchedule
    /\ child \in ScoreInputs
    /\ mutation = NoMutation
    /\ best_schedule = EmptySchedule
    /\ generation = 0
    /\ generations_without_improvement = 0
    /\ current_score = NoScore
    /\ history = {}

\* _get_score(child): the score, or the ZeroDivisionError of line 106.
Score ==
    /\ pc = "score"
    /\ IF Denominator(child) = 0
       THEN /\ Raise("ZeroDivisionError")
            /\ UNCHANGED current_score
       ELSE /\ current_score' = get_score(child)
            /\ pc' = "scored"
            /\ UNCHANGED error
    /\ UNCHANGED <<config, attempts, population, new_population, breeding,
                   best_schedule, generation, generations_without_improvement, history>>

NextScore == Score

SpecScore == InitScore /\ [][NextScore]_vars

\* ==================================================================== claims
SeqRange(pool) == {pool[i] : i \in 1..Len(pool)}

\* Every schedule run holds in a population.
Members == SeqRange(population) \cup SeqRange(new_population)
              \cup (IF pc \in {"loop", "breed", "done"} THEN {best_schedule} ELSE {})

SameSlot(a, b) ==
    a.time_slot.day = b.time_slot.day /\ a.time_slot.time = b.time_slot.time

\* No two distinct Session objects of the schedule are in the same (day, period)
\* and share a room identifier, a teacher fullname or a group name.
NoDoubleBooking(schedule) ==
    \A i, j \in Positions(schedule) :
        (schedule.sessions[i] # schedule.sessions[j]
           /\ SameSlot(At(schedule, i), At(schedule, j)))
        => /\ At(schedule, i).room.identifier # At(schedule, j).room.identifier
           /\ At(schedule, i).teacher.fullname # At(schedule, j).teacher.fullname
           /\ At(schedule, i).group.name # At(schedule, j).group.name

Count(schedule, g, subject) ==
    Cardinality({i \in Positions(schedule) :
                    /\ At(schedule, i).group.name = g.name
                    /\ At(schedule, i).subject.name = subject.name})

\* C2 (requirement completeness): in every schedule of a population, for every
\* group and every (required_count, subject) pair of its requirement list, the
\* number of sessions with that group and that subject is required_count.
C2_RequirementCompleteness ==
    \A s \in Members :
        \A g \in SeqRange(groups) :
            \A req \in SeqRange(g.required_subjects) :
                Count(s, g, req[2]) = req[1]

\* The breeding loop is over and the selection's key function raises nothing.
AtSelection ==
    /\ pc = "breed"
    /\ Len(new_population) >= population_size
    /\ ~ScoreRaises(population \o new_population)

\* C3 (selection size): the selection step of every generation, GREEDY or RAIN,
\* leaves a next-generation population of exactly population_size individuals.
C3_SelectionSize ==
    [][AtSelection => (pc' = "loop" /\ Len(population') = population_size)]_vars

\* C4 (swap mutation): when _mutate applies SWAP to the sessions at i1 and i2,
\* the two are distinct sessions and afterwards each has the other's
\* pre-mutation time slot.
C4_SwapExchanges ==
    mutation.type = "SWAP" =>
        /\ parent.sessions[mutation.i1] # parent.sessions[mutation.i2]
        /\ At(child, mutation.i1).time_slot = At(parent, mutation.i2).time_slot
        /\ At(child, mutation.i2).time_slot = At(parent, mutation.i1).time_slot

\* C5 (seeding failure is fatal): when the seeding loop ends with fewer than
\* population_size schedules, it has spent its population_size * 100 attempts,
\* run fails and holds no schedule to return; run is in the generations, or
\* has returned, only with a population of at least population_size; a failed
\* run stays failed.
C5_SeedingFailureIsFatal ==
    [][/\ (pc = "seeding" /\ pc' # "seeding") =>
            IF Len(population) < population_size
            THEN /\ pc' = "failed"
                 /\ attempts' = population_size * AttemptsMultiplier
                 /\ best_schedule' = EmptySchedule
            ELSE pc' = "loop"
       /\ pc = "failed" => pc' = "failed"
       /\ pc' \in {"loop", "breed", "done"} => Len(population') >= population_size
      ]_vars

\* The seeding loop spent its whole budget on a roster with an unteachable
\* subject and run failed.
C5_Witness ==
    /\ pc = "failed"
    /\ error = "AssertionError: Empty initial population"
    /\ attempts = population_size * AttemptsMultiplier
    /\ population = <<>>

\* C6 (bounded termination): every execution of run terminates.
C6_Terminates == <>(pc \in {"done", "failed"})

\* C7 (best-ever result): when run returns, for any n_generations >= 0, the
\* returned schedule scores at least as high as every schedule that was a member
\* of the initial population or of a selected population.
C7_BestEver ==
    pc = "done" =>
        \A d \in history :
            d # 0 => ScoreGE(get_score(best_schedule), [num |-> 1, den |-> d])

\* The second half of C7, which the code keeps: from one generation to the next
\* the score of best_schedule never decreases.
C7_BestNeverDecreases ==
    [][(pc \in {"loop", "breed"} /\ pc' \in {"loop", "breed", "done"}
          /\ Denominator(best_schedule) # 0 /\ Denominator(best_schedule') # 0)
        => ScoreGE(get_score(best_schedule'), get_score(best_schedule))]_vars

\* score = 1 / den is in (0, 1], and is 1 exactly when the three terms are 0.
ScoreInBounds(schedule) ==
    /\ Denominator(schedule) >= 1
    /\ (Denominator(schedule) = 1) <=>
          /\ total_groups_windows(schedule) = 0
          /\ total_teachers_windows(schedule) = 0
          /\ seats_lacking(schedule) = 0

\* C8 as stated (score bounds on every session list): _get_score returns a
\* score in (0, 1], equal to 1 exactly when group_windows, teacher_windows and
\* seats_lacking are all 0.
C8_ScoreBoundsAnyList ==
    pc # "score" =>
        /\ error = "none"
        /\ current_score = get_score(child)
        /\ ScoreInBounds(child)

\* No two list entries in the same (day, period) share a group name or a
\* teacher fullname.
EntitySlotsDistinct(schedule) ==
    \A i, j \in Positions(schedule) :
        (i # j /\ SameSlot(At(schedule, i), At(schedule, j)))
        => /\ At(schedule, i).group.name # At(schedule, j).group.name
           /\ At(schedule, i).teacher.fullname # At(schedule, j).teacher.fullname

\* C8 as amended: on every session list in which no two entries in the same
\* (day, period) share a group or a teacher, _get_score returns a score in
\* (0, 1], equal to 1 exactly when the three terms are all 0.
C8_ScoreBounds ==
    (pc # "score" /\ EntitySlotsDistinct(child)) =>
        /\ error = "none"
        /\ current_score = get_score(child)
        /\ ScoreInBounds(child)

\* A scored list whose group has an idle period between two sessions.
C8_Witness ==
    /\ pc = "scored"
    /\ EntitySlotsDistinct(child)
    /\ Len(child.sessions) = 2
    /\ total_groups_windows(child) > 0
    /\ current_score.den > 1

\* The session's teacher can teach the session's subject (by name).
Capable(session) ==
    \E k \in 1..Len(session.teacher.teachable_subjects) :
        session.teacher.teachable_subjects[k].name = session.subject.name

\* C9 (teacher capability): in every schedule of a population and in every
\* child _mutate returns, each session's teacher can teach its subject; the
\* reteach mutation never finds its candidate list empty.
C9_TeacherCapability ==
    /\ \A s \in Members \cup {child} :
          \A i \in Positions(s) : Capable(At(s, i))
    /\ error # "IndexError"

\* A reteach mutation gave a session another teacher.
C9_Witness ==
    /\ mutation.type = "CHANGE_TEACHER"
    /\ At(child, mutation.i1).teacher # At(parent, mutation.i1).teacher
    /\ child \in SeqRange(new_population)

\* C10 (non-negative windows): on every population member, which passed
\* _check_hard_constraints, _calculate_windows_number is >= 0 for every group
\* and every teacher, the score's denominator is >= 1, and run never divides
\* by zero.
C10_WindowsNonNegative ==
    /\ \A s \in Members :
          check_hard_constraints(s) =>
             /\ \A i \in Positions(s) :
                   /\ calculate_windows_number(
                          SlotsOfGroup(s, At(s, i).group.name)) >= 0
                   /\ calculate_windows_number(
                          SlotsOfTeacher(s, At(s, i).teacher.fullname)) >= 0
             /\ Denominator(s) >= 1
    /\ error # "ZeroDivisionError"
====
